---- MODULE Spec2Model ----
(***************************************************************************)
(* Model of pywarp's relying-party manager (src/pywarp/rp.py): the four    *)
(* operations of RelyingPartyManager over a credential storage backend.    *)
(* Every operation is one action; each part of its arguments is drawn      *)
(* where the code reads it, and the record of the call (what it read,      *)
(* which collaborators it called, what it returned or raised) is kept in   *)
(* `call`.  Specification Spec.                                            *)
(*                                                                         *)
(* Model of the FIDO metadata client (src/pywarp/fido/metadata.py):        *)
(* threads calling metadata_toc and metadata_for_key_id on client          *)
(* instances, one step per read, write or HTTP request.  Specification     *)
(* MetaSpec.                                                               *)
(*                                                                         *)
(* ReplaySpec is Spec with a history variable that remembers a register or *)
(* verify call that succeeded, until a challenge is issued for its user    *)
(* and purpose.                                                            *)
(***************************************************************************)
EXTENDS Integers, Sequences, FiniteSets, TLC

VARIABLES
    manager,      \* the RelyingPartyManager's fields rp_name, rp_id, storage_backend
    challenges,   \* storage backend: (email, type) -> saved challenge
    credentials,  \* storage backend: email -> saved credential
    issued,       \* how many tokens secrets.token_bytes has produced
    call,         \* the last call: what it read, called, returned or raised
    _metadata_toc, \* FIDOMetadataClient instance -> its _metadata_toc attribute
    lru,          \* lru_cache of metadata_for_key_id, least recently used first
    threads,      \* thread -> the frame of the call it is in
    http,         \* url -> how many requests of it were answered with success
    done,         \* the metadata client call that ended last, with its result
    calls,        \* how many metadata client calls have been made
    accepted      \* history: a register or verify call that succeeded, kept for replay

rpVars == <<manager, challenges, credentials, issued, call, accepted>>
metaVars == <<_metadata_toc, lru, threads, http, done, calls>>
vars == <<manager, challenges, credentials, issued, call, _metadata_toc, lru, threads, http,
         done, calls, accepted>>

\* ------------------------------------------------------------- bounds
\* Number of tokens secrets.token_bytes produces in a behaviour.
NumChallenges == 2
\* Number of distinct authenticator credentials (id + key pair).
NumKeys == 2
\* Number of FIDOMetadataClient instances, and of threads calling them.
NumClients == 2
NumThreads == 2
\* Number of metadata client calls in a behaviour.
MaxCalls == 2

\* ---------------------------------------------------- program constants
\* secrets.token_bytes(32)
ChallengeLen == 32
\* "timeout": 60 * 1000
TimeoutMs == 60 * 1000
\* @lru_cache(64)
LruMaxSize == 64

\* ------------------------------------------------------------- values
\* Python's None / an absent value is the empty tuple, a present value v is <<v>>.
None == <<>>
Some(v) == <<v>>

\* Python values that reach the caller carry their type.
PyStr(s) == [type |-> "str", val |-> s]
PyBytes(b) == [type |-> "bytes", val |-> b]

StartsWith(s, p) ==
    /\ Len(p) <= Len(s)
    /\ \A i \in 1..Len(p) : s[i] = p[i]

\* Python truthiness of an optional string: `if self.rp_id:`
Truthy(opt) == opt # None /\ Len(opt[1]) > 0

\* ------------------------------------------------------------ strings
\* A str is a tuple of one-character strings, a bytes value a tuple of 0..255.
Chr(code) ==
    CASE code = 97 -> "a"
      [] code = 98 -> "b"
      [] code = 99 -> "c"
      [] code = 100 -> "d"
      [] code = 64 -> "@"
      [] code = 46 -> "."
      [] code = 112 -> "p"
      [] code = 114 -> "r"
      [] code = 120 -> "x"
      [] code = 121 -> "y"
      [] OTHER -> "?"

Ord(ch) ==
    CASE ch = "a" -> 97
      [] ch = "b" -> 98
      [] ch = "c" -> 99
      [] ch = "d" -> 100
      [] ch = "@" -> 64
      [] ch = "." -> 46
      [] ch = "p" -> 112
      [] ch = "r" -> 114
      [] ch = "x" -> 120
      [] ch = "y" -> 121
      [] OTHER -> 63

\* bytes.decode(): UTF-8, here of single-byte code points; a byte >= 128 that
\* starts no valid sequence raises UnicodeDecodeError.
Utf8Decodable(b) == \A i \in 1..Len(b) : b[i] < 128
bytes_decode(b) == [i \in 1..Len(b) |-> Chr(b[i])]
\* str.encode()
str_encode(s) == [i \in 1..Len(s) |-> Ord(s[i])]

\* re.match(r"[^@]+@[^@]+\.[^@]+", email): a match anchored at the start only.
EmailShape(s) ==
    \E i \in 2..Len(s) : \E j \in (i + 2)..Len(s) :
        /\ s[i] = "@"
        /\ s[j] = "."
        /\ \A k \in 1..(j - 1) : k # i => s[k] # "@"
        /\ j + 1 <= Len(s)
        /\ s[j + 1] # "@"

\* The users of the model, and the email arguments register and verify receive.
UserA == <<"a", "@", "b", ".", "c">>
UserD == <<"d", "@", "b", ".", "c">>
Users == {UserA, UserD}
NoAtEmail == <<97, 98, 46, 99>>
NonUtf8Email == <<255, 64, 98, 46, 99>>
EmailInputs == {str_encode(u) : u \in Users} \cup {NoAtEmail, NonUtf8Email}

Purposes == {"registration", "authentication"}

\* ------------------------------------------------------------- base64
\* A base64url text is a tuple of the characters' indices in the URL-safe
\* alphabet (0..63); PadChar stands for "=".
PadChar == 64

ByteAt(b, i) == IF i <= Len(b) THEN b[i] ELSE 0

Sextet(b, j) ==
    LET g  == (j - 1) \div 4
        b1 == ByteAt(b, 3 * g + 1)
        b2 == ByteAt(b, 3 * g + 2)
        b3 == ByteAt(b, 3 * g + 3)
        r  == (j - 1) % 4
    IN  CASE r = 0 -> b1 \div 4
          [] r = 1 -> (b1 % 4) * 16 + (b2 \div 16)
          [] r = 2 -> IF 3 * g + 2 > Len(b) THEN PadChar
                      ELSE (b2 % 16) * 4 + (b3 \div 64)
          [] OTHER -> IF 3 * g + 3 > Len(b) THEN PadChar ELSE b3 % 64

b64_encode(b) == [j \in 1..(4 * ((Len(b) + 2) \div 3)) |-> Sextet(b, j)]

\* The text as browsers send it: without the trailing padding.
Unpadded(t) == SelectSeq(t, LAMBDA ch : ch # PadChar)

\* b64url_decode pads the text to a multiple of four characters and decodes it.
Repad(t) ==
    [j \in 1..(4 * ((Len(t) + 3) \div 4)) |-> IF j <= Len(t) THEN t[j] ELSE PadChar]

Pads(t) == Cardinality({j \in 1..Len(t) : t[j] = PadChar})

B64Decodable(t) ==
    LET p == Repad(t)
    IN  /\ Pads(p) <= 2
        /\ \A j \in 1..Len(p) : p[j] = PadChar => j > Len(p) - Pads(p)

SextetAt(p, j) == IF p[j] = PadChar THEN 0 ELSE p[j]

DecodedByte(p, k) ==
    LET g  == (k - 1) \div 3
        s1 == SextetAt(p, 4 * g + 1)
        s2 == SextetAt(p, 4 * g + 2)
        s3 == SextetAt(p, 4 * g + 3)
        s4 == SextetAt(p, 4 * g + 4)
        r  == (k - 1) % 3
    IN  CASE r = 0 -> s1 * 4 + (s2 \div 16)
          [] r = 1 -> (s2 % 16) * 16 + (s3 \div 4)
          [] OTHER -> (s3 % 4) * 64 + s4

b64url_decode(t) ==
    LET p == Repad(t)
    IN  [k \in 1..(3 * (Len(p) \div 4) - Pads(p)) |-> DecodedByte(p, k)]

\* --------------------------------------------------------- challenges
\* secrets.token_bytes(32): the k-th token, distinct from the ones before it.
TokenBytes(k) == [i \in 1..ChallengeLen |-> (k * 97 + i * 31) % 256]
Challenges == {TokenBytes(k) : k \in 1..NumChallenges}

\* --------------------------------------------------------- hashing
\* hashlib.sha256(x).digest(): injective on the model's values.
sha256(x) == [sha256 |-> x]

\* ------------------------------------------------------ keys, signatures
\* An EC public key (COSE: algorithm, curve point); key 0 is the attestation
\* certificate's key, keys 1..NumKeys are credential keys.
PublicKey(k) == [alg |-> "ES256", x |-> k, y |-> 100 + k]
PublicKeys == {PublicKey(k) : k \in 1..NumKeys}

\* An ECDSA signature made with the private key of `pk` over `msg`; a byte
\* string that is no signature of anything has neither.
Sign(pk, msg) == [signer |-> Some(pk), msg |-> Some(msg)]
GarbageSig == [signer |-> None, msg |-> None]

\* PublicKey.verify(signature, message) -> bool
PublicKeyVerify(pk, sig, msg) == sig.signer = Some(pk) /\ sig.msg = Some(msg)

\* The credential an authenticator creates: attested credential data.
AttestedCredentialData(k) ==
    [aaguid |-> 0, credential_id |-> <<200 + k, k>>, credential_public_key |-> PublicKey(k)]

\* Credential{id, public_key}
Credential(acd) == [id |-> acd.credential_id, public_key |-> acd.credential_public_key]

\* ---------------------------------------------------------- the manager
RpHost == <<"r", "p">>
OtherHost == <<"x", "y">>
RpIds == {None, Some(<<>>), Some(RpHost)}

HttpsScheme == <<"h", "t", "t", "p", "s", ":", "/", "/">>
HttpScheme == <<"h", "t", "t", "p", ":", "/", "/">>

\* The origins a client declares: the RP's own, a host that only begins with
\* the RP id, the RP over http, and none at all (the key is absent).
OriginRp == HttpsScheme \o RpHost
OriginLookalike == HttpsScheme \o RpHost \o <<".", "x", "y">>
OriginHttp == HttpScheme \o RpHost
OriginInputs == {Some(OriginRp), Some(OriginLookalike), Some(OriginHttp), None}


\* ------------------------------------------------------- client data
\* The bytes of the client_data_json argument.
ClientDataJson == "client_data_json"
\* The challenge as browsers send it, for each token.
ChallengeTexts == {Unpadded(b64_encode(c)) : c \in Challenges}
ClientDataTypes == {"webauthn.create", "webauthn.get"}

\* ------------------------------------------------- authenticator data
FlagUP == 1
FlagUV == 4
FlagAT == 64
MinAuthDataLen == 37

RpIdHash == sha256(str_encode(RpHost))
OtherRpIdHash == sha256(str_encode(OtherHost))
RpIdHashes == {RpIdHash, OtherRpIdHash}

\* The raw authenticator data: its length and what its bytes hold.
RawAuthData(len, h, flags, acd) ==
    [len |-> len, rp_id_hash |-> h, flags |-> flags, sign_count |-> 0, attested |-> acd]

TruncatedAuthData == RawAuthData(MinAuthDataLen - 1, RpIdHash, FlagUP, None)

\* What a client sends to register: attested credential data of some key for
\* the RP, of the first key for another RP; none; the user not present; too
\* few bytes.
AttestationAuthDataInputs ==
    {RawAuthData(MinAuthDataLen + 95, RpIdHash, FlagUP + FlagAT, Some(AttestedCredentialData(k))) :
        k \in 1..NumKeys}
    \cup {RawAuthData(MinAuthDataLen + 95, OtherRpIdHash, FlagUP + FlagAT,
                      Some(AttestedCredentialData(1))),
          RawAuthData(MinAuthDataLen, RpIdHash, FlagUP, None),
          RawAuthData(MinAuthDataLen + 95, RpIdHash, FlagUV + FlagAT, Some(AttestedCredentialData(1))),
          TruncatedAuthData}

\* What a client sends to verify.
AssertionAuthDataInputs ==
    {RawAuthData(MinAuthDataLen, h, FlagUP, None) : h \in RpIdHashes}
    \cup {RawAuthData(MinAuthDataLen, RpIdHash, FlagUV, None), TruncatedAuthData}

\* AuthenticatorData(raw): MalformedInput below 37 bytes.
AuthDataWellFormed(raw) == raw.len >= MinAuthDataLen
AuthenticatorData(raw) ==
    [rp_id_hash |-> raw.rp_id_hash,
     flags |-> raw.flags,
     signature_counter |-> raw.sign_count,
     user_present |-> (raw.flags % 2) = 1,
     user_verified |-> ((raw.flags \div 4) % 2) = 1,
     attested_credential_data |-> raw.attested,
     raw_auth_data |-> raw]

\* ------------------------------------------- FIDO-U2F attestation statement
AttestationCert == [public_key |-> PublicKey(0)]

U2FPublicKey(pk) == <<4, pk.x, pk.y>>

\* 0x00 || rp_id_hash || client_data_hash || credential_id || U2F public key
U2FSignedData(rp_id_hash, client_data_hash, acd) ==
    <<0, rp_id_hash, client_data_hash, acd.credential_id,
      U2FPublicKey(acd.credential_public_key)>>

\* The statements a client sends for the authenticator data and client data of
\* the call: a genuine one, one with a bad signature, one without certificate.
AttStmtInputs(authenticator_data, client_data_hash) ==
    IF authenticator_data.attested_credential_data = None
    THEN {[sig |-> GarbageSig, x5c |-> <<AttestationCert>>]}
    ELSE LET acd == authenticator_data.attested_credential_data[1]
             signed == U2FSignedData(authenticator_data.rp_id_hash, client_data_hash, acd)
             good == Sign(AttestationCert.public_key, signed)
         IN  {[sig |-> good, x5c |-> <<AttestationCert>>],
              [sig |-> GarbageSig, x5c |-> <<AttestationCert>>],
              [sig |-> good, x5c |-> <<>>]}

\* FIDOU2FAttestationStatement(att_stmt).validate(...): the error it raises, or
\* "" and the credential it extracted.
Validate(att_stmt, authenticator_data, rp_id_hash, client_data_hash) ==
    IF authenticator_data.attested_credential_data = None
    THEN [error |-> "MissingAttestedCredentialData", credential |-> None]
    ELSE IF Len(att_stmt.x5c) # 1
    THEN [error |-> "MalformedAttestation", credential |-> None]
    ELSE LET acd == authenticator_data.attested_credential_data[1]
             signed == U2FSignedData(rp_id_hash, client_data_hash, acd)
         IN  IF ~PublicKeyVerify(att_stmt.x5c[1].public_key, att_stmt.sig, signed)
             THEN [error |-> "AttestationSignatureInvalid", credential |-> None]
             ELSE [error |-> "", credential |-> Some(Credential(acd))]

FmtInputs == {"fido-u2f", "packed"}

\* ------------------------------------------------- the storage backend
\* get_challenge_for_user(email, type): the saved challenge, None without one.
get_challenge_for_user(email, type) == challenges[<<email, type>>]

\* get_credential_by_email(email): the saved credential, None without one
\* (the backend then raises CredentialNotFound).
get_credential_by_email(email) == credentials[email]

\* save_challenge_for_user either takes effect or fails as a whole.
BackendOutcomes == {"ok", "fail"}

\* ------------------------------------------------------ the call record
\* What the last call read (None: not read), which collaborators it called
\* (log), and how it ended: outcome "returned" with ret, or "raised" with the
\* exception (error) and the step that raised it (failed).
NewCall(op) ==
    [op |-> op, email |-> None, outcome |-> "none", error |-> "", failed |-> "",
     ret |-> None, log |-> <<>>, challenge |-> None,
     cd_type |-> None, cd_challenge |-> None, cd_origin |-> None,
     auth_data |-> None, fmt |-> None, att_stmt |-> None,
     signature |-> None, sig_result |-> "", user_handle |-> None, raw_id |-> None,
     saves |-> 0]

Logged(c, what) == [c EXCEPT !.log = Append(@, what)]

\* The call raises: the backend is left as it was.
Raise(c, step, err) ==
    /\ call' = [c EXCEPT !.outcome = "raised", !.error = err, !.failed = step]
    /\ UNCHANGED <<manager, challenges, credentials>>

\* The call returns `value`.
Returned(c, value) == [c EXCEPT !.outcome = "returned", !.ret = Some(value)]

\* ------------------------------------------- get_registration_options
RegistrationOptions(email, challenge) ==
    [challenge |-> PyStr(b64_encode(challenge)),
     rp |-> [name |-> manager.rp_name, id |-> manager.rp_id],
     user |-> [id |-> PyStr(b64_encode(str_encode(email))),
               name |-> email, displayName |-> email, icon |-> None],
     pubKeyCredParams |-> <<[type |-> "public-key", alg |-> "ES256"],
                            [type |-> "public-key", alg |-> "ES384"],
                            [type |-> "public-key", alg |-> "ES512"]>>,
     timeout |-> TimeoutMs,
     excludeCredentials |-> <<>>,
     attestation |-> "direct",
     extensions |-> [loc |-> TRUE]]

\* Faulty variant: the registration challenge saved under the other type.
RegistrationOptionsType_Swapped == "authentication"

\* Line 49: the type the registration challenge is saved under.
RegistrationOptionsType == "registration"

get_registration_options ==
    /\ UNCHANGED metaVars
    /\ issued < NumChallenges
    /\ issued' = issued + 1
    /\ \E email \in Users, backend \in BackendOutcomes :
        LET challenge == TokenBytes(issued + 1)
            options == RegistrationOptions(email, challenge)
            c == Logged([NewCall("get_registration_options") EXCEPT
                           !.email = Some(email), !.challenge = Some(challenge)],
                        "save_challenge_for_user")
        IN  IF backend = "fail"
            THEN Raise(c, "save_challenge", "StorageError")
            ELSE /\ challenges' = [challenges EXCEPT
                                     ![<<email, RegistrationOptionsType>>] = Some(challenge)]
                 /\ call' = Returned([c EXCEPT !.saves = 1], options)
                 /\ UNCHANGED <<manager, credentials>>

\* ------------------------------------------ get_authentication_options
\* Faulty variant: the credential id put in the allow-list as raw bytes.
AllowCredentials_RawId(credential) ==
    <<[type |-> "public-key", id |-> PyBytes(credential.id)]>>

\* Line 59: the allow-list.
AllowCredentials(credential) ==
    <<[type |-> "public-key", id |-> PyStr(b64_encode(credential.id))]>>

AuthenticationOptions(credential, challenge) ==
    [challenge |-> PyBytes(challenge),
     timeout |-> TimeoutMs,
     allowCredentials |-> AllowCredentials(credential)]

\* Lines 54-63: with the credential, issue and save the challenge.
AuthOptionsIssue(c, email, credential) ==
    /\ issued < NumChallenges
    /\ issued' = issued + 1
    /\ \E backend \in BackendOutcomes :
        LET challenge == TokenBytes(issued + 1)
            options == AuthenticationOptions(credential, challenge)
            c1 == Logged([c EXCEPT !.challenge = Some(challenge)], "save_challenge_for_user")
        IN  IF backend = "fail"
            THEN Raise(c1, "save_challenge", "StorageError")
            ELSE /\ challenges' = [challenges EXCEPT ![<<email, "authentication">>] = Some(challenge)]
                 /\ call' = Returned([c1 EXCEPT !.saves = 1], options)
                 /\ UNCHANGED <<manager, credentials>>

\* Line 53, then the rest.
get_authentication_options ==
    /\ UNCHANGED metaVars
    /\ \E email \in Users :
        LET c == Logged([NewCall("get_authentication_options") EXCEPT !.email = Some(email)],
                        "get_credential_by_email")
            credential == get_credential_by_email(email)
        IN  IF credential = None
            THEN Raise(c, "get_credential", "CredentialNotFound") /\ UNCHANGED issued
            ELSE AuthOptionsIssue(c, email, credential[1])

\* ------------------------------------------------- the checks' conditions
\* The checks register and verify make themselves, and the exception each
\* raises: `raise Exception("Invalid email address")` (lines 73, 105) and the
\* assert statements (lines 76-88, 108-117).
CheckSteps == {"identifier", "type", "challenge", "origin", "user_present", "fmt"}
RaisedBy(step) == IF step = "identifier" THEN "Exception" ELSE "AssertionError"

\* Faulty variant: verify takes either ceremony's client data.
VerTypeOk_Either(type) == type \in {"webauthn.create", "webauthn.get"}

\* Lines 76, 108: the client data's type.
RegTypeOk(type) == type = "webauthn.create"
VerTypeOk(type) == type = "webauthn.get"

\* Lines 77, 109: the type the expected challenge is fetched under.
RegChallengeType == "registration"
VerChallengeType == "authentication"

\* Faulty variant: any declared challenge passes once one is saved.
ChallengeMatches_AnySaved(text, expect_challenge) == expect_challenge # None

\* Faulty variant: any challenge issued so far is accepted once one is saved.
ChallengeMatches_AnyIssued(text, expect_challenge) ==
    /\ expect_challenge # None
    /\ \E k \in 1..issued : b64url_decode(text) = TokenBytes(k)

\* b64url_decode of each challenge text a client sends, computed once.
DecodableTexts == {t \in ChallengeTexts : B64Decodable(t)}
DecodedTexts == [t \in DecodableTexts |-> b64url_decode(t)]

\* Lines 78, 110: b64url_decode(client_data["challenge"]) == expect_challenge
ChallengeMatches(text, expect_challenge) == Some(DecodedTexts[text]) = expect_challenge

\* Faulty variant: `if self.rp_id is not None`.
OriginChecked_NotNone == manager.rp_id # None

\* Lines 79, 111: if self.rp_id
OriginChecked == Truthy(manager.rp_id)

\* Lines 123-126: is_secure_and_same_origin(origin)
is_secure_and_same_origin(origin) ==
    LET rp_id_with_https == HttpsScheme \o manager.rp_id[1]
    IN  StartsWith(origin, rp_id_with_https)

\* Faulty variant: user verification taken for user presence.
UserPresentOk_OrVerified(authenticator_data) ==
    authenticator_data.user_present \/ authenticator_data.user_verified

\* Lines 85, 117: assert authenticator_data.user_present
UserPresentOk(authenticator_data) == authenticator_data.user_present

\* Faulty variant: the format is not checked.
FmtOk_Unchecked(fmt) == TRUE

\* Line 88: assert fmt == "fido-u2f"
FmtOk(fmt) == fmt = "fido-u2f"

\* Line 119: authenticator_data.raw_auth_data + client_data_hash
SignedPayload(authenticator_data, client_data_hash) ==
    <<authenticator_data.raw_auth_data, client_data_hash>>

\* ------------------------------------------------------------ register
\* Faulty variant: the registration challenge is deleted when the credential
\* is saved.
RegPersist_Consuming(c, email, credential) ==
    /\ credentials' = [credentials EXCEPT ![email] = Some(credential)]
    /\ challenges' = [challenges EXCEPT ![<<email, "registration">>] = None]
    /\ call' = Returned([Logged(c, "save_credential_for_user") EXCEPT !.saves = @ + 1],
                        [registered |-> TRUE])
    /\ UNCHANGED manager

\* Lines 93-96: persist the credential, return {"registered": True}.
RegPersist(c, email, credential) ==
    /\ credentials' = [credentials EXCEPT ![email] = Some(credential)]
    /\ call' = Returned([Logged(c, "save_credential_for_user") EXCEPT !.saves = @ + 1],
                        [registered |-> TRUE])
    /\ UNCHANGED <<manager, challenges>>

\* Lines 89-92: validate the FIDO-U2F attestation statement.
RegAttestation(c, email, client_data_hash, authenticator_data) ==
    \E att_stmt \in AttStmtInputs(authenticator_data, client_data_hash) :
        LET c1 == Logged([c EXCEPT !.att_stmt = Some(att_stmt)], "att_stmt.validate")
            attestation == Validate(att_stmt, authenticator_data,
                                    authenticator_data.rp_id_hash, client_data_hash)
        IN  IF attestation.error # ""
            THEN Raise(c1, "attestation", attestation.error)
            ELSE RegPersist(c1, email, attestation.credential[1])

\* Line 88: the attestation format.
RegFmt(c, email, client_data_hash, authenticator_data) ==
    \E fmt \in FmtInputs :
        LET c1 == [c EXCEPT !.fmt = Some(fmt)]
        IN  IF ~FmtOk(fmt)
            THEN Raise(c1, "fmt", RaisedBy("fmt"))
            ELSE RegAttestation(c1, email, client_data_hash, authenticator_data)

\* Lines 84-85: parse the authenticator data, assert user_present.
RegAuthData(c, email, client_data_hash) ==
    \E raw \in AttestationAuthDataInputs :
        LET c1 == [c EXCEPT !.auth_data = Some(raw)]
        IN  IF ~AuthDataWellFormed(raw)
            THEN Raise(c1, "auth_data", "MalformedInput")
            ELSE IF ~UserPresentOk(AuthenticatorData(raw))
            THEN Raise(c1, "user_present", RaisedBy("user_present"))
            ELSE RegFmt(c1, email, client_data_hash, AuthenticatorData(raw))

\* Lines 79-80: the origin, read only if an RP id is configured.
RegOrigin(c, email, client_data_hash) ==
    IF OriginChecked
    THEN \E origin \in OriginInputs :
            LET c1 == [c EXCEPT !.cd_origin = Some(origin)]
            IN  IF origin = None
                THEN Raise(c1, "origin_key", "KeyError")
                ELSE IF ~is_secure_and_same_origin(origin[1])
                THEN Raise(c1, "origin", RaisedBy("origin"))
                ELSE RegAuthData(c1, email, client_data_hash)
    ELSE RegAuthData(c, email, client_data_hash)

\* Lines 77-78: the saved registration challenge against the declared one.
RegChallenge(c, email, client_data_hash) ==
    \E text \in ChallengeTexts :
        LET expect_challenge == get_challenge_for_user(email, RegChallengeType)
            c1 == Logged([c EXCEPT !.cd_challenge = Some(text)], "get_challenge_for_user")
        IN  IF text \notin DecodableTexts
            THEN Raise(c1, "challenge", "binascii.Error")
            ELSE IF ~ChallengeMatches(text, expect_challenge)
            THEN Raise(c1, "challenge", RaisedBy("challenge"))
            ELSE RegOrigin(c1, email, client_data_hash)

\* Lines 74-76: hash and parse the client data, assert its type.
RegClientData(c, email) ==
    \E decodable \in BOOLEAN :
        LET client_data_hash == sha256(ClientDataJson)
        IN  IF ~decodable
            THEN Raise(c, "client_data", "JSONDecodeError")
            ELSE \E type \in ClientDataTypes :
                    LET c1 == [c EXCEPT !.cd_type = Some(type)]
                    IN  IF ~RegTypeOk(type)
                        THEN Raise(c1, "type", RaisedBy("type"))
                        ELSE RegChallenge(c1, email, client_data_hash)

\* Lines 71-73: decode the email and match its shape.
RegEmail(c) ==
    \E email_bytes \in EmailInputs :
        IF ~Utf8Decodable(email_bytes)
        THEN Raise(c, "email_decode", "UnicodeDecodeError")
        ELSE LET email == bytes_decode(email_bytes)
                 c1 == [c EXCEPT !.email = Some(email)]
             IN  IF ~EmailShape(email)
                 THEN Raise(c1, "identifier", RaisedBy("identifier"))
                 ELSE RegClientData(c1, email)

\* Line 70: cbor2.loads(attestation_object), then the rest.
register ==
    /\ UNCHANGED <<issued, _metadata_toc, lru, threads, http, done, calls>>
    /\ \E decodable \in BOOLEAN :
        LET c == Logged(NewCall("register"), "cbor2.loads")
        IN  IF ~decodable
            THEN Raise(c, "attestation_object", "MalformedInput")
            ELSE RegEmail(c)

\* -------------------------------------------------------------- verify
\* The signatures a client sends with the authenticator data and client data
\* of the call: made with each credential key over the signed payload, and a
\* byte string that is no signature.
SignatureInputs(payload) ==
    {Sign(pk, payload) : pk \in PublicKeys} \cup {GarbageSig}

\* How the backend's credentials report a failed verification: by a returned
\* False or by a raised error.
FailureReports == {"false", "raised"}

\* The storage backend a manager is constructed with.
StorageBackend(report) == [verify_failure |-> report]

\* The raw_id and user_handle arguments of verify: the id of the first key's
\* credential and an id of no credential; no handle and a handle.
RawIdInputs == {AttestedCredentialData(1).credential_id, <<0>>}
UserHandleInputs == {None, Some(str_encode(UserA))}

\* Faulty variant: the credential is looked up by the raw id.
CredentialFor_RawId(email, raw_id) ==
    IF get_credential_by_email(email) # None /\ get_credential_by_email(email)[1].id = raw_id
    THEN get_credential_by_email(email)
    ELSE None

\* Line 118: self.storage_backend.get_credential_by_email(email); raw_id and
\* user_handle are not used.
CredentialFor(email, raw_id) == get_credential_by_email(email)

\* Credential.verify(signature, signed_data): "accepted", or the failure report.
CredentialVerify(credential, signature, signed_data, report) ==
    IF PublicKeyVerify(credential.public_key, signature, signed_data)
    THEN "accepted"
    ELSE report

\* Lines 119-121: verify the signature, return {"verified": True}.
VerSignature(c, email, client_data_hash, authenticator_data, credential) ==
    \E signature \in SignatureInputs(SignedPayload(authenticator_data, client_data_hash)) :
        LET result == CredentialVerify(credential, signature,
                                       SignedPayload(authenticator_data, client_data_hash),
                                       manager.storage_backend.verify_failure)
            c1 == Logged([c EXCEPT !.signature = Some(signature), !.sig_result = result],
                         "credential.verify")
        IN  IF result = "raised"
            THEN Raise(c1, "signature", "VerificationError")
            ELSE /\ call' = Returned(c1, [verified |-> TRUE])
                 /\ UNCHANGED <<manager, challenges, credentials>>

\* Line 118: fetch the saved credential; the call's user_handle and raw_id are
\* at hand here.
VerCredential(c, email, client_data_hash, authenticator_data) ==
    \E user_handle \in UserHandleInputs, raw_id \in RawIdInputs :
        LET credential == CredentialFor(email, raw_id)
            c1 == Logged([c EXCEPT !.user_handle = Some(user_handle), !.raw_id = Some(raw_id)],
                         "get_credential_by_email")
        IN  IF credential = None
            THEN Raise(c1, "get_credential", "CredentialNotFound")
            ELSE VerSignature(c1, email, client_data_hash, authenticator_data, credential[1])

\* Lines 116-117: parse the authenticator data, assert user_present.
VerAuthData(c, email, client_data_hash) ==
    \E raw \in AssertionAuthDataInputs :
        LET c1 == [c EXCEPT !.auth_data = Some(raw)]
        IN  IF ~AuthDataWellFormed(raw)
            THEN Raise(c1, "auth_data", "MalformedInput")
            ELSE IF ~UserPresentOk(AuthenticatorData(raw))
            THEN Raise(c1, "user_present", RaisedBy("user_present"))
            ELSE VerCredential(c1, email, client_data_hash, AuthenticatorData(raw))

\* Lines 111-112: the origin, read only if an RP id is configured.
VerOrigin(c, email, client_data_hash) ==
    IF OriginChecked
    THEN \E origin \in OriginInputs :
            LET c1 == [c EXCEPT !.cd_origin = Some(origin)]
            IN  IF origin = None
                THEN Raise(c1, "origin_key", "KeyError")
                ELSE IF ~is_secure_and_same_origin(origin[1])
                THEN Raise(c1, "origin", RaisedBy("origin"))
                ELSE VerAuthData(c1, email, client_data_hash)
    ELSE VerAuthData(c, email, client_data_hash)

\* Lines 109-110: the saved authentication challenge against the declared one.
VerChallenge(c, email, client_data_hash) ==
    \E text \in ChallengeTexts :
        LET expect_challenge == get_challenge_for_user(email, VerChallengeType)
            c1 == Logged([c EXCEPT !.cd_challenge = Some(text)], "get_challenge_for_user")
        IN  IF text \notin DecodableTexts
            THEN Raise(c1, "challenge", "binascii.Error")
            ELSE IF ~ChallengeMatches(text, expect_challenge)
            THEN Raise(c1, "challenge", RaisedBy("challenge"))
            ELSE VerOrigin(c1, email, client_data_hash)

\* Lines 106-108: hash and parse the client data, assert its type.
VerClientData(c, email) ==
    \E decodable \in BOOLEAN :
        LET client_data_hash == sha256(ClientDataJson)
        IN  IF ~decodable
            THEN Raise(c, "client_data", "JSONDecodeError")
            ELSE \E type \in ClientDataTypes :
                    LET c1 == [c EXCEPT !.cd_type = Some(type)]
                    IN  IF ~VerTypeOk(type)
                        THEN Raise(c1, "type", RaisedBy("type"))
                        ELSE VerChallenge(c1, email, client_data_hash)

\* Lines 103-105, then the rest.
verify ==
    /\ UNCHANGED <<issued, _metadata_toc, lru, threads, http, done, calls>>
    /\ \E email_bytes \in EmailInputs :
        LET c == NewCall("verify")
        IN  IF ~Utf8Decodable(email_bytes)
            THEN Raise(c, "email_decode", "UnicodeDecodeError")
            ELSE LET email == bytes_decode(email_bytes)
                     c1 == [c EXCEPT !.email = Some(email)]
                 IN  IF ~EmailShape(email)
                     THEN Raise(c1, "identifier", RaisedBy("identifier"))
                     ELSE VerClientData(c1, email)

\* ================================================== FIDOMetadataClient
Clients == 1..NumClients
Threads == 1..NumThreads

\* mds_url, and the urls of the table's entries.
MdsUrl == "https://mds.fidoalliance.org/"
UrlA == "a"
UrlB == "b"
UrlC == "c"
Urls == {MdsUrl, UrlA, UrlB, UrlC}

\* requests.get(url) with raise_for_status(): the request log after an answer.
Requested(url, ok) == IF ok THEN [http EXCEPT ![url] = @ + 1] ELSE http

\* The key ids looked up: KeyP is listed by the second and the third entry,
\* KeyR by the third only, KeyX by none.
KeyP == "p"
KeyR == "r"
KeyX == "x"
KeyIds == {KeyP, KeyR, KeyX}

\* The table's entries; the first one has no attestationCertificateKeyIdentifiers.
Entries ==
    <<[url |-> UrlA, attestationCertificateKeyIdentifiers |-> None],
      [url |-> UrlB, attestationCertificateKeyIdentifiers |-> Some({KeyP})],
      [url |-> UrlC, attestationCertificateKeyIdentifiers |-> Some({KeyP, KeyR})]>>

\* The document decoded from the `no`-th successful response of mds_url.
Toc(no) == [no |-> no, entries |-> Entries]

\* The header algorithms a served document declares.
JwtAlgorithms == {"ES256", "RS256", "HS256"}

\* Line 22: assert algorithm in {"ES256", "RS256"}
AlgorithmOk(algorithm) == algorithm \in {"ES256", "RS256"}

\* Line 33: e.get("attestationCertificateKeyIdentifiers", [])
KeyIdentifiers(e) ==
    IF e.attestationCertificateKeyIdentifiers = None
    THEN {}
    ELSE e.attestationCertificateKeyIdentifiers[1]

\* Faulty variant: the loop keeps the last entry listing key_id.
FirstEntry_Last(toc, key_id) ==
    LET listing == {i \in 1..Len(toc.entries) : key_id \in KeyIdentifiers(toc.entries[i])}
    IN  IF listing = {} THEN 0
        ELSE CHOOSE i \in listing : \A j \in listing : i >= j

\* Lines 32-36: the index of the entry the for loop breaks at, 0 if it runs
\* to its else branch.
FirstEntry(toc, key_id) ==
    LET listing == {i \in 1..Len(toc.entries) : key_id \in KeyIdentifiers(toc.entries[i])}
    IN  IF listing = {} THEN 0
        ELSE CHOOSE i \in listing : \A j \in listing : i <= j

\* The body served at an entry's url: the base64 text of the record, or a
\* text that is no base64.
RecordBodies(url) == {b64_encode(str_encode(<<url>>)), <<1, 2, 3, 4, 5>>}

\* Line 39: json.loads(base64.b64decode(res.content).decode()), of the
\* `no`-th successful response of the url.
Record(body, no) == [json |-> bytes_decode(b64url_decode(body)), no |-> no]

\* ---- the lru_cache of metadata_for_key_id: (self, key_id) -> record
LruIndex(key) ==
    LET at == {i \in 1..Len(lru) : lru[i].key = key}
    IN  IF at = {} THEN 0 ELSE CHOOSE i \in at : TRUE

\* A hit makes the entry the most recently used.
LruTouch(i) ==
    [j \in 1..Len(lru) |->
        IF j < i THEN lru[j] ELSE IF j < Len(lru) THEN lru[j + 1] ELSE lru[i]]

\* The result of a miss is stored, unless another call stored the key
\* meanwhile; a full cache drops its least recently used entry.
LruStore(key, value) ==
    IF LruIndex(key) # 0 THEN lru
    ELSE IF Len(lru) >= LruMaxSize THEN Append(Tail(lru), [key |-> key, value |-> value])
    ELSE Append(lru, [key |-> key, value |-> value])

\* ---- a thread's frame: the position (pc), the call (op, self, key_id), its
\* locals, the urls it requested, and its result (ret or error).
NewFrame ==
    [pc |-> "idle", op |-> "none", self |-> 0, key_id |-> "", entry |-> 0,
     urls |-> <<>>, hit |-> FALSE, ret |-> None, error |-> ""]

Frame(t) == threads[t]

\* The call of thread t ends as frame f says.
MetaEnd(t, f) ==
    /\ done' = [f EXCEPT !.pc = "done"]
    /\ threads' = [threads EXCEPT ![t] = NewFrame]

MetaRaise(t, f, err) == MetaEnd(t, [f EXCEPT !.error = err])

MetaReturn(t, f, value) == MetaEnd(t, [f EXCEPT !.ret = Some(value)])

\* Line 17: if self._metadata_toc is None
TocCheck(self) == IF _metadata_toc[self] = None THEN "toc_get" ELSE "toc_return"

\* A thread reads client.metadata_toc: line 17.
CallMetadataToc(t) ==
    /\ Frame(t).pc = "idle"
    /\ calls < MaxCalls
    /\ calls' = calls + 1
    /\ \E self \in Clients :
        threads' = [threads EXCEPT ![t] =
                      [NewFrame EXCEPT !.pc = TocCheck(self), !.op = "metadata_toc",
                                       !.self = self]]
    /\ UNCHANGED <<_metadata_toc, lru, http, done>>
    /\ UNCHANGED rpVars

\* Line 30: a thread calls client.metadata_for_key_id(key_id); the cache
\* answers a hit, a miss runs the function.
CallMetadataForKeyId(t) ==
    /\ Frame(t).pc = "idle"
    /\ calls < MaxCalls
    /\ calls' = calls + 1
    /\ \E self \in Clients, key_id \in KeyIds :
        LET f == [NewFrame EXCEPT !.op = "metadata_for_key_id", !.self = self,
                                  !.key_id = key_id]
            i == LruIndex(<<self, key_id>>)
        IN  IF i # 0
            THEN /\ lru' = LruTouch(i)
                 /\ MetaReturn(t, [f EXCEPT !.hit = TRUE], lru[i].value)
            ELSE /\ threads' = [threads EXCEPT ![t] = [f EXCEPT !.pc = "function"]]
                 /\ UNCHANGED <<lru, done>>
    /\ UNCHANGED <<_metadata_toc, http>>
    /\ UNCHANGED rpVars

\* Line 32: the function reads self.metadata_toc: line 17.
LookupTocCheck(t) ==
    /\ Frame(t).pc = "function"
    /\ threads' = [threads EXCEPT ![t].pc = TocCheck(Frame(t).self)]
    /\ UNCHANGED <<_metadata_toc, lru, http, done>>
    /\ UNCHANGED <<rpVars, calls>>

\* Lines 18-27: requests.get(self.mds_url), raise_for_status; check the
\* header's algorithm, verify the document with the certificate of its
\* header, store it in self._metadata_toc.
TocFetch(t) ==
    /\ Frame(t).pc = "toc_get"
    /\ LET f == [Frame(t) EXCEPT !.urls = Append(@, MdsUrl)]
       IN  \E ok \in BOOLEAN :
            /\ http' = Requested(MdsUrl, ok)
            /\ IF ~ok
               THEN MetaRaise(t, f, "HTTPError") /\ UNCHANGED _metadata_toc
               ELSE \E algorithm \in JwtAlgorithms, verified \in BOOLEAN :
                      IF ~AlgorithmOk(algorithm)
                      THEN MetaRaise(t, f, "AssertionError") /\ UNCHANGED _metadata_toc
                      ELSE IF ~verified
                      THEN MetaRaise(t, f, "InvalidSignatureError") /\ UNCHANGED _metadata_toc
                      ELSE /\ _metadata_toc' = [_metadata_toc EXCEPT
                                                  ![f.self] = Some(Toc(http[MdsUrl] + 1))]
                           /\ threads' = [threads EXCEPT ![t] = [f EXCEPT !.pc = "toc_return"]]
                           /\ UNCHANGED done
    /\ UNCHANGED lru
    /\ UNCHANGED <<rpVars, calls>>

\* Lines 32-36: find the first entry listing key_id, or raise KeyError.
Scan(t, f, toc) ==
    LET e == FirstEntry(toc, f.key_id)
    IN  IF e = 0
        THEN MetaRaise(t, f, "KeyError")
        ELSE /\ threads' = [threads EXCEPT ![t] = [f EXCEPT !.pc = "record_get", !.entry = e]]
             /\ UNCHANGED done

\* Line 28: return self._metadata_toc, to the caller or to the scan of
\* metadata_for_key_id.
TocReturn(t) ==
    /\ Frame(t).pc = "toc_return"
    /\ LET f == Frame(t)
           toc == _metadata_toc[f.self][1]
       IN  IF f.op = "metadata_toc"
           THEN MetaReturn(t, f, toc)
           ELSE Scan(t, f, toc)
    /\ UNCHANGED <<_metadata_toc, lru, http>>
    /\ UNCHANGED <<rpVars, calls>>

\* Lines 37-39: fetch the entry's url, decode the record; the cache stores a
\* returned record.
RecordGet(t) ==
    /\ Frame(t).pc = "record_get"
    /\ LET url == Entries[Frame(t).entry].url
           f == [Frame(t) EXCEPT !.urls = Append(@, url)]
       IN  \E ok \in BOOLEAN :
            /\ http' = Requested(url, ok)
            /\ IF ~ok
               THEN MetaRaise(t, f, "HTTPError") /\ UNCHANGED lru
               ELSE \E body \in RecordBodies(url) :
                      IF ~B64Decodable(body)
                      THEN MetaRaise(t, f, "binascii.Error") /\ UNCHANGED lru
                      ELSE LET record == Record(body, http[url] + 1)
                           IN  /\ lru' = LruStore(<<f.self, f.key_id>>, record)
                               /\ MetaReturn(t, f, record)
    /\ UNCHANGED _metadata_toc
    /\ UNCHANGED <<rpVars, calls>>

\* ------------------------------------------------------- specification
\* Lines 15-18: RelyingPartyManager(rp_name, rp_id, credential_storage_backend)
Manager(rp_id, report) ==
    [rp_name |-> <<"R", "P">>, rp_id |-> rp_id, storage_backend |-> StorageBackend(report)]

\* The managers of the model: each RP id over a backend whose credentials
\* raise on a failed verification, and one without RP id over a backend whose
\* credentials return False.
Managers == {Manager(id, "raised") : id \in RpIds} \cup {Manager(None, "false")}

\* RelyingPartyManager(rp_name, rp_id, credential_storage_backend) over an
\* empty backend; no metadata client is in use.
Init ==
    /\ manager \in Managers
    /\ challenges = [key \in Users \X Purposes |-> None]
    /\ credentials = [u \in Users |-> None]
    /\ issued = 0
    /\ call = NewCall("none")
    /\ _metadata_toc = [self \in Clients |-> None]
    /\ lru = <<>>
    /\ threads = [t \in Threads |-> NewFrame]
    /\ http = [url \in Urls |-> 0]
    /\ done = NewFrame
    /\ calls = 0
    /\ accepted = None

Next ==
    \/ get_registration_options /\ UNCHANGED accepted
    \/ get_authentication_options /\ UNCHANGED accepted
    \/ register /\ UNCHANGED accepted
    \/ verify /\ UNCHANGED accepted

Spec == Init /\ [][Next]_vars

\* The challenge a call of `op` is checked against is saved by `issuer`.
IssuerOf(op) ==
    IF op = "register" THEN "get_registration_options" ELSE "get_authentication_options"

\* The call `c` issued a challenge for the user and purpose of the call `a`.
Issues(c, a) ==
    /\ c.outcome = "returned"
    /\ c.op = IssuerOf(a.op)
    /\ c.email = a.email

\* The arguments register and verify read after the email and the client
\* data's type.
LaterArguments ==
    {"cd_challenge", "cd_origin", "auth_data", "fmt", "att_stmt", "signature",
     "user_handle", "raw_id"}

\* The call `c` was made with the arguments of the call `a`, which returned:
\* the same operation, and every argument `c` read is the one `a` read.
Replays(c, a) ==
    /\ c.op = a.op
    /\ c.email = a.email
    /\ c.cd_type = a.cd_type
    /\ \A arg \in LaterArguments : c[arg] # None => c[arg] = a[arg]

\* The history variable: a register or verify call that returned may be
\* remembered, with the credential the backend held for its user when it
\* returned, and whether it has been replayed with success since; it is
\* forgotten when a challenge is issued for its user and purpose.
Track ==
    IF call'.op \in {"register", "verify"} /\ call'.outcome = "returned"
    THEN accepted' \in
            {IF accepted # None /\ Replays(call', accepted[1].call)
             THEN Some([accepted[1] EXCEPT !.replayed = TRUE])
             ELSE accepted,
             Some([call |-> call', credential |-> credentials'[call'.email[1]],
                   replayed |-> FALSE])}
    ELSE IF accepted # None /\ Issues(call', accepted[1].call)
    THEN accepted' = None
    ELSE accepted' = accepted

\* A manager with an RP id over a backend whose credentials raise on a failed
\* verification, and an empty backend.
ReplayInit ==
    /\ manager = Manager(Some(RpHost), "raised")
    /\ challenges = [key \in Users \X Purposes |-> None]
    /\ credentials = [u \in Users |-> None]
    /\ issued = 0
    /\ call = NewCall("none")
    /\ _metadata_toc = [self \in Clients |-> None]
    /\ lru = <<>>
    /\ threads = [t \in Threads |-> NewFrame]
    /\ http = [url \in Urls |-> 0]
    /\ done = NewFrame
    /\ calls = 0
    /\ accepted = None

ReplayNext ==
    \/ get_registration_options /\ Track
    \/ get_authentication_options /\ Track
    \/ register /\ Track
    \/ verify /\ Track

ReplaySpec == ReplayInit /\ [][ReplayNext]_vars

\* The metadata clients of a process: the class attribute _metadata_toc is
\* None (line 13), the cache is empty, no thread is in a call.
MetaInit ==
    /\ manager = Manager(None, "raised")
    /\ challenges = [key \in Users \X Purposes |-> None]
    /\ credentials = [u \in Users |-> None]
    /\ issued = 0
    /\ call = NewCall("none")
    /\ _metadata_toc = [self \in Clients |-> None]
    /\ lru = <<>>
    /\ threads = [t \in Threads |-> NewFrame]
    /\ http = [url \in Urls |-> 0]
    /\ done = NewFrame
    /\ calls = 0
    /\ accepted = None

MetaNext ==
    \/ \E t \in Threads : CallMetadataToc(t)
    \/ \E t \in Threads : CallMetadataForKeyId(t)
    \/ \E t \in Threads : LookupTocCheck(t)
    \/ \E t \in Threads : TocFetch(t)
    \/ \E t \in Threads : TocReturn(t)
    \/ \E t \in Threads : RecordGet(t)

MetaSpec == MetaInit /\ [][MetaNext]_vars

\* =============================================================== claims
Succeeded(op) == call.op = op /\ call.outcome = "returned"
Failed(op) == call.op = op /\ call.outcome = "raised"
CallEmail == call.email[1]
InLog(what) == \E i \in 1..Len(call.log) : call.log[i] = what
\* An RP id is configured (neither None nor empty).
Configured == manager.rp_id # None /\ manager.rp_id[1] # <<>>
RpOrigin == HttpsScheme \o manager.rp_id[1]
\* The signed payload of the verify call on record.
CallPayload == <<call.auth_data[1], sha256(ClientDataJson)>>
\* The bytes a challenge or id carried in an options record stands for.
Denotes(v) == IF v.type = "str" THEN b64url_decode(v.val) ELSE v.val

\* C1: verify returns {"verified": True} only if the stored credential's public
\* key accepted the signature over raw_auth_data || client_data_hash; a failed
\* verification, returned as False or raised, never ends in success.
C1_VerifiedOnlyIfSignatureAccepted ==
    Succeeded("verify") =>
        /\ credentials[CallEmail] # None
        /\ PublicKeyVerify(credentials[CallEmail][1].public_key, call.signature[1], CallPayload)

\* What holds of a register call that returned, and of one that raised.
C2_RegisteredState ==
    /\ Succeeded("register") =>
        /\ InLog("cbor2.loads")
        /\ EmailShape(CallEmail)
        /\ call.cd_type = Some("webauthn.create")
        /\ call.cd_challenge # None
        /\ challenges[<<CallEmail, "registration">>] = Some(b64url_decode(call.cd_challenge[1]))
        /\ Configured =>
            /\ call.cd_origin # None
            /\ call.cd_origin[1] # None
            /\ StartsWith(call.cd_origin[1][1], RpOrigin)
        /\ call.auth_data # None
        /\ call.auth_data[1].len >= 37
        /\ call.auth_data[1].flags % 2 = 1
        /\ call.fmt = Some("fido-u2f")
        /\ call.att_stmt # None
        /\ LET ad == AuthenticatorData(call.auth_data[1])
               v == Validate(call.att_stmt[1], ad, ad.rp_id_hash, sha256(ClientDataJson))
           IN  /\ v.error = ""
               /\ credentials[CallEmail] = v.credential
        /\ call.saves = 1
        /\ call.log[Len(call.log)] = "save_credential_for_user"
        /\ Cardinality({i \in 1..Len(call.log) : call.log[i] = "save_credential_for_user"}) = 1
    /\ Failed("register") =>
        /\ call.saves = 0
        /\ ~InLog("save_credential_for_user")
        /\ call.ret = None

\* Only a register that returns changes the saved credentials.
C2_RegisterStep ==
    /\ credentials' # credentials =>
        call'.op = "register" /\ call'.outcome = "returned" /\ call'.saves = 1
    /\ (call'.op = "register" /\ call'.outcome = "raised") =>
        UNCHANGED <<challenges, credentials>>

\* C2: register is fail-fast without partial commit: the credential is saved
\* at most once, only after every earlier step has passed; a register that
\* fails returns nothing and leaves the saved credentials as they were.
C2_RegisterFailFast == []C2_RegisteredState /\ [][C2_RegisterStep]_vars

\* A register that failed at the last check, with a credential already saved.
C2_Witness ==
    /\ Failed("register")
    /\ call.failed = "attestation"
    /\ call.error = "AttestationSignatureInvalid"
    /\ credentials[CallEmail] # None

\* C3: register(u) succeeds only if the decoded declared challenge is the one
\* saved for (u, "registration"), verify(u) only if it is the one saved for
\* (u, "authentication").
C3_ChallengeBoundToUserAndPurpose ==
    /\ Succeeded("register") =>
        /\ call.cd_challenge # None
        /\ B64Decodable(call.cd_challenge[1])
        /\ challenges[<<CallEmail, "registration">>] = Some(b64url_decode(call.cd_challenge[1]))
    /\ Succeeded("verify") =>
        /\ call.cd_challenge # None
        /\ B64Decodable(call.cd_challenge[1])
        /\ challenges[<<CallEmail, "authentication">>] = Some(b64url_decode(call.cd_challenge[1]))

\* verify succeeded for a user whose two saved challenges differ.
C3_Witness ==
    /\ Succeeded("verify")
    /\ challenges[<<CallEmail, "registration">>] # None
    /\ challenges[<<CallEmail, "registration">>] # challenges[<<CallEmail, "authentication">>]

\* C4: with an RP id configured, register and verify accept only client data
\* whose origin is the RP's origin https://<rp_id>; a host that merely begins
\* with that text is rejected.
C4_OriginEquality ==
    ((Succeeded("register") \/ Succeeded("verify")) /\ Configured) =>
        call.cd_origin = Some(Some(RpOrigin))

\* C5: with an RP id configured, register and verify reject every client data
\* whose origin does not start with https://<rp_id> (every http origin, and a
\* missing one); without an RP id (None or empty) the origin is not read at
\* all and causes no rejection.
C5_OriginCheckConditional ==
    call.op \in {"register", "verify"} =>
        /\ (Configured /\ call.cd_origin # None) =>
            \/ /\ call.cd_origin[1] # None
               /\ StartsWith(call.cd_origin[1][1], RpOrigin)
               /\ ~StartsWith(call.cd_origin[1][1], HttpScheme)
               /\ call.failed \notin {"origin", "origin_key"}
            \/ /\ call.outcome = "raised"
               /\ call.failed \in {"origin", "origin_key"}
        /\ (Configured /\ call.outcome = "returned") => call.cd_origin # None
        /\ ~Configured =>
            /\ call.cd_origin = None
            /\ call.failed \notin {"origin", "origin_key"}

\* verify rejected an http origin of the RP's host after the challenge matched.
C5_Witness ==
    /\ Configured
    /\ Failed("verify")
    /\ call.failed = "origin"
    /\ call.cd_origin = Some(Some(OriginHttp))

\* C6: register and verify succeed only if the RP-ID hash in the authenticator
\* data is SHA-256 of the manager's RP id.
C6_RpIdHashChecked ==
    ((Succeeded("register") \/ Succeeded("verify")) /\ Configured) =>
        call.auth_data[1].rp_id_hash = sha256(str_encode(manager.rp_id[1]))

\* What holds of a call that read authenticator data without user presence.
C7_UserPresentState ==
    (/\ call.op \in {"register", "verify"}
     /\ call.auth_data # None
     /\ call.auth_data[1].len >= 37
     /\ call.auth_data[1].flags % 2 = 0) =>
        /\ call.outcome = "raised"
        /\ call.failed = "user_present"
        /\ call.ret = None
        /\ call.saves = 0
        /\ ~InLog("save_credential_for_user")
        /\ ~InLog("att_stmt.validate")
        /\ ~InLog("get_credential_by_email")
        /\ ~InLog("credential.verify")
        /\ call.signature = None

\* Such a call writes nothing.
C7_UserPresentStep ==
    (call'.op \in {"register", "verify"} /\ call'.failed = "user_present") =>
        UNCHANGED <<challenges, credentials>>

\* C7: authenticator data with the user-present bit clear is rejected by
\* register and verify; register saves no credential, verify neither fetches
\* the credential nor verifies a signature.
C7_UserPresenceMandatory == []C7_UserPresentState /\ [][C7_UserPresentStep]_vars

\* verify rejected authenticator data without user presence although all the
\* earlier checks passed and a credential is saved for the user.
C7_Witness ==
    /\ Failed("verify")
    /\ call.failed = "user_present"
    /\ call.auth_data[1].flags = FlagUV
    /\ credentials[CallEmail] # None

\* C8: each failed check of register and verify surfaces with an error kind of
\* its own: no two of the checks (identifier, client-data type, challenge,
\* origin, user presence, fmt) report the same error.
C8_DistinctErrorKinds ==
    (call.op \in {"register", "verify"} /\ call.outcome = "raised" /\ call.failed \in CheckSteps) =>
        \A other \in CheckSteps \ {call.failed} : RaisedBy(other) # call.error

\* C9: get_registration_options and get_authentication_options save the
\* 32-byte challenge under (u, "registration") resp. (u, "authentication")
\* before they return: the challenge of the returned options is the saved one;
\* if saving fails, no options are returned.
C9_OptionsChallengePersisted ==
    \A op \in {"get_registration_options", "get_authentication_options"} :
        call.op = op =>
            /\ call.outcome = "returned" =>
                /\ Len(Denotes(call.ret[1].challenge)) = 32
                /\ Denotes(call.ret[1].challenge) = call.challenge[1]
                /\ challenges[<<CallEmail,
                                IF op = "get_registration_options"
                                THEN "registration" ELSE "authentication">>]
                     = Some(Denotes(call.ret[1].challenge))
                /\ call.saves = 1
                /\ call.log[Len(call.log)] = "save_challenge_for_user"
            /\ call.outcome = "raised" => call.ret = None
            /\ call.failed = "save_challenge" => call.outcome = "raised"

\* get_authentication_options returned options while the user's registration
\* challenge is another one.
C9_Witness ==
    /\ Succeeded("get_authentication_options")
    /\ challenges[<<CallEmail, "registration">>] # challenges[<<CallEmail, "authentication">>]

\* What holds of a get_authentication_options call, with and without a saved
\* credential.
C10_AuthOptionsState ==
    call.op = "get_authentication_options" =>
        /\ credentials[CallEmail] = None =>
            /\ call.outcome = "raised"
            /\ call.failed = "get_credential"
            /\ call.error = "CredentialNotFound"
            /\ call.challenge = None
            /\ call.saves = 0
            /\ call.ret = None
            /\ ~InLog("save_challenge_for_user")
        /\ call.failed = "get_credential" => credentials[CallEmail] = None
        /\ call.outcome = "returned" =>
            /\ credentials[CallEmail] # None
            /\ Len(call.ret[1].allowCredentials) = 1
            /\ call.ret[1].allowCredentials[1].type = "public-key"
            /\ call.ret[1].allowCredentials[1].id = PyStr(b64_encode(credentials[CallEmail][1].id))
            /\ b64url_decode(call.ret[1].allowCredentials[1].id.val) = credentials[CallEmail][1].id

\* Without a credential no token is drawn and nothing is saved.
C10_AuthOptionsStep ==
    (call'.op = "get_authentication_options" /\ call'.failed = "get_credential") =>
        UNCHANGED <<challenges, credentials, issued>>

\* C10: get_authentication_options fails with CredentialNotFound when no
\* credential is saved for u, issuing and saving no challenge; with a saved
\* credential the allow-list has exactly one entry, whose id encodes that
\* credential's id.
C10_AuthOptionsNeedCredential == []C10_AuthOptionsState /\ [][C10_AuthOptionsStep]_vars

\* The call failed for one user while the other has a credential and tokens
\* are left to issue.
C10_Witness ==
    /\ Failed("get_authentication_options")
    /\ call.error = "CredentialNotFound"
    /\ \E u \in Users : credentials[u] # None
    /\ issued < NumChallenges

\* C11: in every options record returned by get_registration_options and by
\* get_authentication_options the challenge is base64url text, never raw
\* bytes, and so is every credential id of the allow-list.
C11_OptionsCarryBase64Text ==
    /\ Succeeded("get_registration_options") =>
        call.ret[1].challenge.type = "str"
    /\ Succeeded("get_authentication_options") =>
        /\ call.ret[1].challenge.type = "str"
        /\ \A i \in 1..Len(call.ret[1].allowCredentials) :
              call.ret[1].allowCredentials[i].id.type = "str"

\* C12: the credential register(u) saved is the one that
\* get_authentication_options(u) lists and verify(u) checks the signature
\* against: verify(u) succeeds on a signature made with u's saved key over the
\* payload, and fails on an altered signature and on one that is valid only
\* under another user's saved credential.
C12_CredentialBinding ==
    /\ Succeeded("get_authentication_options") =>
        b64url_decode(call.ret[1].allowCredentials[1].id.val) = credentials[CallEmail][1].id
    /\ (call.op = "verify" /\ InLog("credential.verify")) =>
        /\ credentials[CallEmail] # None
        /\ call.outcome = "returned" <=>
              call.signature[1] = Sign(credentials[CallEmail][1].public_key, CallPayload)

\* What holds of a register call that read an attestation format other than
\* "fido-u2f".
C13_FmtState ==
    (call.op = "register" /\ call.fmt # None /\ call.fmt[1] # "fido-u2f") =>
        /\ call.outcome = "raised"
        /\ call.failed = "fmt"
        /\ call.error = RaisedBy("fmt")
        /\ call.ret = None
        /\ call.att_stmt = None
        /\ ~InLog("att_stmt.validate")
        /\ ~InLog("save_credential_for_user")
        /\ call.saves = 0

\* A register that fails at the format saves nothing.
C13_FmtStep ==
    (call'.op = "register" /\ call'.failed = "fmt") =>
        UNCHANGED <<challenges, credentials>>

\* C13: register rejects every attestation object whose fmt is not exactly
\* "fido-u2f"; the attestation statement is then neither constructed nor
\* validated and no credential is saved.
C13_OnlyFidoU2F == []C13_FmtState /\ [][C13_FmtStep]_vars

\* register rejected the format "packed" after all the earlier checks passed,
\* with user presence and attested credential data in the authenticator data.
C13_Witness ==
    /\ Failed("register")
    /\ call.failed = "fmt"
    /\ call.fmt = Some("packed")
    /\ call.auth_data[1].flags = FlagUP + FlagAT
    /\ credentials[CallEmail] = None

\* C14: the trust document is fetched once for the process: over all
\* interleavings of metadata_toc accesses and metadata_for_key_id lookups, on
\* one or on several client instances, no request of mds_url is made once a
\* client has stored the document, and every later access gives that document.
C14_TocFetchedOnce ==
    [][(\E self \in Clients : _metadata_toc[self] # None) =>
          /\ http'[MdsUrl] = http[MdsUrl]
          /\ \A self \in Clients :
                _metadata_toc'[self] # None =>
                    \E other \in Clients : _metadata_toc[other] = _metadata_toc'[self]]_vars

\* The url whose record a lookup of key_id returns; "" if no entry lists it.
C15_Url(key_id) ==
    CASE key_id = KeyP -> UrlB
      [] key_id = KeyR -> UrlC
      [] OTHER -> ""

C16_Rank(step) ==
    CASE step = "attestation_object" -> 1
      [] step \in {"email_decode", "identifier"} -> 2
      [] step \in {"client_data", "type"} -> 3
      [] step = "challenge" -> 4
      [] step \in {"origin_key", "origin"} -> 5
      [] step \in {"auth_data", "user_present"} -> 6
      [] step \in {"fmt", "get_credential"} -> 7
      [] step \in {"attestation", "signature"} -> 8
      [] OTHER -> 0
C16_Reached(k) == call.outcome = "returned" \/ C16_Rank(call.failed) >= k
C16_Passed(k) == call.outcome = "returned" \/ C16_Rank(call.failed) > k
C16_IsPrefix(s, t) == Len(s) <= Len(t) /\ \A i \in 1..Len(s) : s[i] = t[i]

\* C16: register and verify apply their checks in the order of the code, each
\* only after all the earlier ones passed: the call fails at the earliest
\* failing step, reads nothing of the later ones, and reads the storage
\* backend only after the identifier and the client-data type passed.
C16_ChecksInOrder ==
    /\ call.op \in {"register", "verify"} =>
        /\ C16_Rank(call.failed) > 0 \/ call.outcome = "returned"
        /\ C16_Passed(2) <=> (call.email # None /\ EmailShape(call.email[1]))
        /\ call.cd_type # None => C16_Reached(3)
        /\ C16_Passed(3) <=>
              call.cd_type = Some(IF call.op = "register" THEN "webauthn.create"
                                  ELSE "webauthn.get")
        /\ C16_Passed(3) <=> call.cd_challenge # None
        /\ C16_Passed(3) <=> InLog("get_challenge_for_user")
        /\ C16_Passed(4) <=>
              /\ call.cd_challenge # None
              /\ B64Decodable(call.cd_challenge[1])
              /\ challenges[<<CallEmail, IF call.op = "register" THEN "registration"
                                         ELSE "authentication">>]
                   = Some(b64url_decode(call.cd_challenge[1]))
        /\ call.cd_origin # None => C16_Passed(4)
        /\ (C16_Passed(4) /\ Configured) => call.cd_origin # None
        /\ C16_Passed(5) <=> call.auth_data # None
        /\ C16_Passed(6) <=>
              /\ call.auth_data # None
              /\ call.auth_data[1].len >= 37
              /\ call.auth_data[1].flags % 2 = 1
    /\ call.op = "register" =>
        /\ C16_Passed(1) <=> call.failed # "attestation_object"
        /\ C16_Passed(6) <=> call.fmt # None
        /\ C16_Passed(7) <=> call.fmt = Some("fido-u2f")
        /\ C16_Passed(7) <=> call.att_stmt # None
        /\ C16_Passed(7) <=> InLog("att_stmt.validate")
        /\ C16_Passed(8) <=> InLog("save_credential_for_user")
        /\ C16_IsPrefix(call.log, <<"cbor2.loads", "get_challenge_for_user",
                                    "att_stmt.validate", "save_credential_for_user">>)
    /\ call.op = "verify" =>
        /\ C16_Passed(6) <=> InLog("get_credential_by_email")
        /\ C16_Passed(7) <=> (InLog("get_credential_by_email") /\ credentials[CallEmail] # None)
        /\ C16_Passed(7) <=> call.signature # None
        /\ C16_Passed(7) <=> InLog("credential.verify")
        /\ C16_IsPrefix(call.log, <<"get_challenge_for_user", "get_credential_by_email",
                                    "credential.verify">>)

\* verify rejected the client-data type without reading the backend, which
\* holds a challenge and a credential for the user.
C16_Witness ==
    /\ Failed("verify")
    /\ call.failed = "type"
    /\ call.log = <<>>
    /\ credentials[CallEmail] # None
    /\ challenges[<<CallEmail, "authentication">>] # None

\* ------------------------------------------------------------------ C17
\* C17 as stated: register and verify leave the stored challenges as they
\* are, and a register or verify call that returned returns again whenever it
\* is made again with the same arguments, as long as no challenge has been
\* issued for its user and purpose since.
C17_ReplaySucceeds ==
    [][/\ call'.op \in {"register", "verify"} => challenges' = challenges
       /\ accepted # None /\ Replays(call', accepted[1].call)
            => call'.outcome = "returned"]_vars

\* C17, amended: register and verify leave the stored challenges as they are,
\* and a register or verify call that returned returns again whenever it is
\* made again with the same arguments, as long as no challenge has been
\* issued for its user and purpose since and, for verify, the backend holds
\* for the user the credential it held when the call returned.
C17_ReplaySucceedsOnSameCredential ==
    [][/\ call'.op \in {"register", "verify"} => challenges' = challenges
       /\ /\ accepted # None
          /\ Replays(call', accepted[1].call)
          /\ accepted[1].call.op = "verify"
                => credentials[accepted[1].call.email[1]] = accepted[1].credential
          => call'.outcome = "returned"]_vars

\* A verify call that returned has been made again with the same arguments
\* and has returned again.
C17_Witness ==
    /\ accepted # None
    /\ accepted[1].replayed
    /\ call = accepted[1].call
    /\ call.op = "verify"
    /\ call.outcome = "returned"

\* ------------------------------------------------------------------ C18
\* The challenge a register or verify call is checked against.
C18_Slot == <<CallEmail, IF call.op = "register" THEN "registration" ELSE "authentication">>

\* A register or verify call that presented a challenge other than the one
\* stored for its user and purpose raised the assertion error of the
\* challenge check; at most one challenge text matches a stored challenge.
C18_State ==
    /\ /\ call.op \in {"register", "verify"}
       /\ call.cd_challenge # None
       /\ challenges[C18_Slot] # Some(b64url_decode(call.cd_challenge[1]))
       => /\ call.outcome = "raised"
          /\ call.failed = "challenge"
          /\ call.error = "AssertionError"
    /\ \A slot \in Users \X Purposes :
          Cardinality({text \in ChallengeTexts : ChallengeMatches(text, challenges[slot])}) <= 1

\* A get_registration_options or get_authentication_options call that returned
\* left its own challenge in the slot of its user and purpose, and no
\* challenge issued before it matches that slot any more.
C18_Step ==
    call'.op \in {"get_registration_options", "get_authentication_options"}
        /\ call'.outcome = "returned"
    => LET slot == <<call'.email[1], IF call'.op = "get_registration_options"
                                     THEN "registration" ELSE "authentication">>
       IN  /\ challenges'[slot] = call'.challenge
           /\ call'.challenge = Some(TokenBytes(issued'))
           /\ \A k \in 1..issued :
                 ~ChallengeMatches(Unpadded(b64_encode(TokenBytes(k))), challenges'[slot])

C19_WritesOnly(slots, users) ==
    /\ \A slot \in (Users \X Purposes) \ slots : challenges'[slot] = challenges[slot]
    /\ \A u \in Users \ users : credentials'[u] = credentials[u]

\* The user a call is about, if it got as far as reading one.
C19_User(c) == IF c.email = None THEN {} ELSE {c.email[1]}

\* C19: get_registration_options(u) writes only the (u, "registration")
\* challenge, get_authentication_options(u) only the (u, "authentication")
\* challenge, register(u) only the credential of u, verify nothing; no call
\* changes the manager's fields.
C19_Frame ==
    [][/\ manager' = manager
       /\ call'.op = "get_registration_options"
            => C19_WritesOnly(C19_User(call') \X {"registration"}, {})
       /\ call'.op = "get_authentication_options"
            => C19_WritesOnly(C19_User(call') \X {"authentication"}, {})
       /\ call'.op = "register" => C19_WritesOnly({}, C19_User(call'))
       /\ call'.op = "verify" => C19_WritesOnly({}, {})]_vars

\* register returned for one user while the other user holds a registration
\* challenge and another credential.
C19_Witness ==
    /\ Succeeded("register")
    /\ \E u \in Users \ {CallEmail} :
          /\ challenges[<<u, "registration">>] # None
          /\ credentials[u] # None
          /\ credentials[u] # credentials[CallEmail]

\* ------------------------------------------------------------------ C20
\* Two verify calls were made with the same email, client data, authenticator
\* data and signature: what both read of them is equal.
C20_SameArguments(c, d) ==
    /\ c.email = d.email
    /\ c.cd_type = d.cd_type
    /\ c.cd_challenge = d.cd_challenge
    /\ c.cd_origin = d.cd_origin
    /\ c.auth_data = d.auth_data
    /\ c.signature = None \/ d.signature = None \/ c.signature = d.signature

\* C20: a verify call made right after another verify call, hence against the
\* same storage state, with the same email, client data, authenticator data
\* and signature, ends as the first did (returned or raised, with the same
\* value or error at the same step), whatever the user_handle and raw_id of
\* the two calls are.
C20_IndependentOfHandleAndRawId ==
    [][call.op = "verify" /\ call'.op = "verify" /\ C20_SameArguments(call, call')
       => /\ call'.outcome = call.outcome
          /\ call'.ret = call.ret
          /\ call'.error = call.error
          /\ call'.failed = call.failed
          /\ call'.sig_result = call.sig_result]_vars

\* verify returned for a call whose raw_id is not the id of the stored
\* credential and whose user_handle is given.
C20_Witness ==
    /\ Succeeded("verify")
    /\ call.sig_result = "accepted"
    /\ call.raw_id # None
    /\ call.raw_id[1] # credentials[CallEmail][1].id
    /\ call.user_handle # Some(None)

====
